---------------------------- MODULE Spec2Model ----------------------------
(***************************************************************************)
(* Path generation and motion integration of the drone-camera extension.   *)
(*                                                                         *)
(* Units.  A coordinate is an integer number of 0.05 m, a speed an integer *)
(* number of 2 m/s and a time delta an integer number of 0.025 s, so that  *)
(* speed * delta_time is a length in coordinate units.  A Gf.Vec3f is a    *)
(* triple <<x, y, z>>.  Values the code computes in floating point are     *)
(* computed exactly as rationals and rounded to the nearest coordinate.    *)
(***************************************************************************)
EXTENDS Integers, Sequences, FiniteSets, TLC

VARIABLES
    active_drones,       \* DroneSimulator.active_drones: name -> drone_info
    prim_valid,          \* scene: does /World/<name> exist
    scene_pos,           \* scene: value of the translate op, NoOp when absent
    scene_rot,           \* scene: value of the orient op, NoOp when absent
    poly_path_points,    \* PolynomialPathGenerator.path_points
    poly_checkpoints,    \* PolynomialPathGenerator.checkpoints
    points_per_segment,  \* PolynomialPathGenerator.points_per_segment
    bez_path_points,     \* BezierPathGenerator.path_points
    bez_checkpoints,     \* BezierPathGenerator.checkpoints
    bez_path_index,      \* BezierPathGenerator.current_path_index
    writes,              \* scene writes issued by the last call, in order
    drone_order,         \* insertion order of the keys of active_drones
    ret,                 \* the last call: operation, arguments, result
    starts,              \* number of start_drone_simulation calls so far
    step_size,           \* the host's physics step size
    run_ticks,           \* history: per run, the ticks it was moving in
    idle_ticks,          \* history: per run, was it ticked after it had stopped
    cameras              \* CameraController.cameras: name -> camera info

vars == <<active_drones, prim_valid, scene_pos, scene_rot, poly_path_points,
          poly_checkpoints, points_per_segment, bez_path_points,
          bez_checkpoints, bez_path_index, writes, drone_order, ret, starts,
          step_size, run_ticks, idle_ticks, cameras>>

-----------------------------------------------------------------------------
(* Bounds of the model *)

\* start_drone_simulation calls in one behaviour
MaxStarts == 2
\* largest samples-per-segment value a generator is constructed with
MaxPointsPerSegment == 2
\* longest straight run, in 0.05 m
MaxDistance == 6
MaxProfileLength == 3

(* Program constants, in model units *)

\* arrival threshold 0.15 m
ArrivalThreshold == 3
\* checkpoint arrival radius 0.8 m
CheckpointRadius == 16
\* default speed 2.0 m/s
DefaultSpeed == 1
\* micro deviation amplitude 0.05 m
MicroDeviation == 1

Names == {"a", "b"}
\* an xform op that does not exist
NoOp == <<>>
\* a checkpoint that is not a 3-vector (cp[0] raises)
BadPoint == <<0>>

-----------------------------------------------------------------------------
(* Gf.Vec3f *)

Abs(n) == IF n < 0 THEN -n ELSE n

\* a / b rounded to the nearest integer, b > 0
RoundDiv(a, b) == (2 * a + b) \div (2 * b)

Vec(x, y, z) == <<x, y, z>>
VAdd(p, q) == <<p[1] + q[1], p[2] + q[2], p[3] + q[3]>>
VSub(p, q) == <<p[1] - q[1], p[2] - q[2], p[3] - q[3]>>
IsVec(p) == Len(p) = 3

RECURSIVE ISqrtFrom(_, _)
ISqrtFrom(s, n) == IF (n + 1) * (n + 1) > s THEN n ELSE ISqrtFrom(s, n + 1)

\* GetLength, rounded down; exact for a vector along one axis
VLength(v) ==
    IF v[2] = 0 /\ v[3] = 0 THEN Abs(v[1])
    ELSE IF v[1] = 0 /\ v[3] = 0 THEN Abs(v[2])
    ELSE IF v[1] = 0 /\ v[2] = 0 THEN Abs(v[3])
    ELSE ISqrtFrom(v[1] * v[1] + v[2] * v[2] + v[3] * v[3], 0)

\* direction * magnitude for direction = v.GetNormalized(); the zero vector
\* normalizes to the zero vector
VScaledDirection(v, magnitude) ==
    LET len == VLength(v) IN
    IF len = 0 THEN <<0, 0, 0>>
    ELSE <<RoundDiv(v[1] * magnitude, len), RoundDiv(v[2] * magnitude, len),
           RoundDiv(v[3] * magnitude, len)>>

-----------------------------------------------------------------------------
(* PolynomialPathGenerator *)

Axis(cps, k) == [i \in 1..Len(cps) |-> cps[i][k]]

\* a coordinate that is not a number (float nan)
NaN == -999

\* CubicSpline(..., bc_type='periodic') raises for values that are not all
\* finite and for an axis whose first and last value differ; x, y and z are
\* fitted inside one try block, so one failing axis fails the tier
PeriodicRaises(cps) ==
    \/ \E i \in 1..Len(cps), k \in 1..3 : cps[i][k] = NaN
    \/ cps[1] # cps[Len(cps)]

\* CubicSpline(..., bc_type='natural') raises for values that are not all
\* finite
NaturalRaises(cps) == \E i \in 1..Len(cps), k \in 1..3 : cps[i][k] = NaN

SplineAttempts_SkipsNatural(cps) ==
    IF ~PeriodicRaises(cps) THEN <<"periodic">>
    ELSE <<"periodic", "linear">>

\* the fits the try/except chain attempts, in the order it attempts them;
\* the linear one (interp1d) accepts every input
SplineAttempts(cps) ==
    IF ~PeriodicRaises(cps) THEN <<"periodic">>
    ELSE IF ~NaturalRaises(cps) THEN <<"periodic", "natural">>
    ELSE <<"periodic", "natural", "linear">>

\* The fit the try/except chain ends with.
SplineTier(cps) == SplineAttempts(cps)[Len(SplineAttempts(cps))]

\* interp1d(kind='linear') over the knots linspace(0, 1, Len(y)) at t = j/n,
\* for two or three knots: not a number next to a knot that is not one
LinearValue(y, j, n) ==
    LET first == Len(y) = 2 \/ 2 * j <= n
        lo == IF first THEN y[1] ELSE y[2]
        hi == IF first THEN y[2] ELSE y[3]
    IN  IF lo = NaN \/ hi = NaN THEN NaN
        ELSE IF Len(y) = 2 THEN lo + RoundDiv((hi - lo) * j, n)
        ELSE IF first THEN lo + RoundDiv((hi - lo) * 2 * j, n)
        ELSE lo + RoundDiv((hi - lo) * (2 * j - n), n)

\* Value at t = j/n of the cubic spline through y over the knots
\* linspace(0, 1, Len(y)), for two or three knots.  With two knots both fits
\* are the straight line.  With three knots the natural fit has second
\* derivative 0 at both ends; the periodic fit (y[1] = y[3]) has first
\* derivative (y[3] - y[1]) / 1 = 0 at every knot.
SplineValue(tier, y, j, n) ==
    IF n = 0 THEN y[1]
    ELSE IF tier = "linear" THEN LinearValue(y, j, n)
    ELSE IF Len(y) = 2 THEN y[1] + RoundDiv((y[2] - y[1]) * j, n)
    ELSE
        LET first == 2 * j <= n
            m == IF first THEN 2 * j ELSE 2 * (n - j)
            from == IF first THEN y[1] ELSE y[3]
            d == y[1] - 2 * y[2] + y[3]
        IN  IF tier = "natural"
            THEN from + RoundDiv(4 * (y[2] - from) * m * n * n
                                   - d * m * (n * n - m * m), 4 * n * n * n)
            ELSE from + RoundDiv((y[2] - from) * (3 * m * m * n - 2 * m * m * m),
                                 n * n * n)

\* _generate_parametric_curve past its length guard: the samples, the first
\* and the last one overwritten by the first and the last checkpoint
GenerateParametricCurve(checkpoints, pps) ==
    LET num_points == Len(checkpoints) * pps
        tier == SplineTier(checkpoints)
        curve_points ==
            [i \in 1..num_points |->
                Vec(SplineValue(tier, Axis(checkpoints, 1), i - 1, num_points - 1),
                    SplineValue(tier, Axis(checkpoints, 2), i - 1, num_points - 1),
                    SplineValue(tier, Axis(checkpoints, 3), i - 1, num_points - 1))]
    IN  IF num_points > 0
        THEN [curve_points EXCEPT ![1] = checkpoints[1],
                                  ![num_points] = checkpoints[Len(checkpoints)]]
        ELSE curve_points

\* does building the curve raise: a checkpoint that is no 3-vector, or a
\* negative number of samples handed to linspace
CurveRaises(checkpoints, pps) ==
    \/ \E i \in 1..Len(checkpoints) : ~IsVec(checkpoints[i])
    \/ Len(checkpoints) * pps < 0

GeneratePolynomialPath_SamplesShort(checkpoints, pps, path_points, old_checkpoints) ==
    IF CurveRaises(checkpoints, pps)
    THEN [raised |-> TRUE, value |-> <<>>, attempts |-> <<>>,
          path_points |-> path_points, checkpoints |-> checkpoints]
    ELSE LET curve == IF Len(checkpoints) < 2
                      THEN [i \in 1..(Len(checkpoints) * pps) |-> checkpoints[1]]
                      ELSE GenerateParametricCurve(checkpoints, pps)
         IN  [raised |-> FALSE, value |-> curve, attempts |-> <<>>,
              path_points |-> curve, checkpoints |-> checkpoints]

\* generate_polynomial_path on a generator whose fields are path_points and
\* checkpoints: what it returns, whether it raised, the fits it attempted
\* and the fields afterwards
GeneratePolynomialPath(checkpoints, pps, path_points, old_checkpoints) ==
    IF Len(checkpoints) < 2
    THEN [raised |-> FALSE, value |-> checkpoints, attempts |-> <<>>,
          path_points |-> path_points, checkpoints |-> old_checkpoints]
    ELSE IF CurveRaises(checkpoints, pps)
    THEN [raised |-> TRUE, value |-> <<>>,
          attempts |-> IF \E i \in 1..Len(checkpoints) : ~IsVec(checkpoints[i])
                       THEN <<>> ELSE SplineAttempts(checkpoints),
          path_points |-> path_points, checkpoints |-> checkpoints]
    ELSE LET curve == GenerateParametricCurve(checkpoints, pps)
         IN  [raised |-> FALSE, value |-> curve,
              attempts |-> SplineAttempts(checkpoints),
              path_points |-> curve, checkpoints |-> checkpoints]

\* PolynomialPathGenerator.get_speed_profile
PolySpeedProfile_Floors(base_speed, path_points) ==
    IF Len(path_points) = 0 THEN <<base_speed>>
    ELSE [i \in 1..Len(path_points) |-> IF base_speed > 0 THEN base_speed ELSE 1]

PolySpeedProfile(base_speed, path_points) ==
    IF Len(path_points) = 0 THEN <<base_speed>>
    ELSE [i \in 1..Len(path_points) |-> base_speed]

-----------------------------------------------------------------------------
(* BezierPathGenerator *)

\* deviation_factor 0.05 m of the simulator's generator
DeviationFactor == 1
\* speed_variation of the Bezier generator (0.05) and the floor of its speed
\* profile (0.1 of the base speed), in thousandths
SpeedVariation == 50
MinSpeedFactor == 100

\* the values random.uniform(-0.05, 0.05) is drawn from, per axis
MicroDeviations == {Vec(0, 0, 0),
                    Vec(MicroDeviation, -MicroDeviation, MicroDeviation)}

VRoundDiv(v, b) == <<RoundDiv(v[1], b), RoundDiv(v[2], b), RoundDiv(v[3], b)>>
VScale(c, v) == <<c * v[1], c * v[2], c * v[3]>>

\* _add_micro_deviation, jitter being the three numbers drawn
AddMicroDeviation(point, jitter) == VAdd(point, jitter)

\* _add_deviation(point, prev_point, next_point) - point, deviation being the
\* deviation_magnitude drawn
DeviationOffset(prev_point, next_point, deviation) ==
    LET d == VScaledDirection(VSub(next_point, prev_point), deviation)
    IN  <<-d[2], d[1], d[3]>>

\* _generate_2point_bezier: sample i of num_points at t = i / (num_points - 1)
Generate2PointBezier(p0, p1, num_points, deviation, jitter) ==
    LET n == num_points - 1
        offset == DeviationOffset(p0, p1, deviation)
    IN  [k \in 1..num_points |->
            LET i == k - 1
                line == VRoundDiv(VAdd(VScale(n - i, p0), VScale(i, p1)), n)
                control_influence == VRoundDiv(VScale(3 * (n - i) * i, offset),
                                               10 * n * n)
            IN  AddMicroDeviation(VAdd(line, control_influence), jitter[k])]

\* _interpolate_3point_bezier at t = a / n
Interpolate3PointBezier(p0, p1, p2, a, n) ==
    IF 4 * n < 10 * a /\ 10 * a < 6 * n
    THEN VRoundDiv(VAdd(VAdd(VScale(3 * (n - a), p0), VScale(7 * n, p1)),
                        VScale(3 * a, p2)), 10 * n)
    ELSE LET control10 == VSub(VScale(16, p1), VScale(3, VAdd(p0, p2)))
         IN  VRoundDiv(VAdd(VAdd(VScale(10 * (n - a) * (n - a), p0),
                                 VScale(2 * (n - a) * a, control10)),
                            VScale(10 * a * a, p2)), 10 * n * n)

\* _generate_segmented_bezier
GenerateSegmentedBezier(checkpoints, points_per_seg, jitter) ==
    LET total_points == points_per_seg * Len(checkpoints)
        n == total_points - 1
        last == Len(checkpoints) - 1
    IN  [k \in 1..total_points |->
            LET i == k - 1
                current_index == (i * last) \div n
                a == (i * last) % n
                next_index == IF current_index + 1 < last THEN current_index + 1
                              ELSE last
                p0 == checkpoints[current_index + 1]
                p1 == checkpoints[next_index + 1]
                point == IF next_index + 1 < Len(checkpoints)
                         THEN Interpolate3PointBezier(p0, p1,
                                  checkpoints[next_index + 2], a, n)
                         ELSE VRoundDiv(VAdd(VScale(n - a, p0), VScale(a, p1)), n)
            IN  AddMicroDeviation(point, jitter[k])]

\* does generate_bezier_path raise past its length guard: a checkpoint that
\* is no 3-vector, or the division i / (num_points - 1) with one point
BezierRaises(checkpoints, points_per_seg) ==
    \/ \E i \in 1..Len(checkpoints) : ~IsVec(checkpoints[i])
    \/ Len(checkpoints) = 2 /\ points_per_seg = 1

\* number of samples generate_bezier_path draws a micro deviation for
BezierSamples(checkpoints, points_per_seg) ==
    IF Len(checkpoints) < 2 \/ BezierRaises(checkpoints, points_per_seg) THEN 0
    ELSE IF Len(checkpoints) = 2 THEN points_per_seg
    ELSE points_per_seg * Len(checkpoints)

\* generate_bezier_path: what it returns, whether it raised, and the fields
\* path_points and checkpoints afterwards
GenerateBezierPath(checkpoints, points_per_seg, deviation, jitter, path_points, old_checkpoints) ==
    IF Len(checkpoints) < 2
    THEN [raised |-> FALSE, value |-> checkpoints,
          path_points |-> path_points, checkpoints |-> old_checkpoints]
    ELSE IF BezierRaises(checkpoints, points_per_seg)
    THEN [raised |-> TRUE, value |-> <<>>,
          path_points |-> <<>>, checkpoints |-> checkpoints]
    ELSE LET curve ==
                IF Len(checkpoints) = 2
                THEN Generate2PointBezier(checkpoints[1], checkpoints[2],
                                          points_per_seg, deviation, jitter)
                ELSE GenerateSegmentedBezier(checkpoints, points_per_seg, jitter)
         IN  [raised |-> FALSE, value |-> curve,
              path_points |-> curve, checkpoints |-> checkpoints]

\* get_speed_profile of the Bezier generator.  A speed factor and a variation
\* are in thousandths, a speed of the profile in millionths of the speed unit.
Max(a, b) == IF a > b THEN a ELSE b

\* _calculate_segment_info: one record per pair of successive checkpoints,
\* indices counted from 0 as in the code
CalculateSegmentInfo(path_points, checkpoints) ==
    LET total_points == Len(path_points)
        per_segment == total_points \div Max(1, Len(checkpoints) - 1)
    IN  IF total_points = 0 THEN <<>>
        ELSE [i \in 1..Max(0, Len(checkpoints) - 1) |->
                LET start_idx == (i - 1) * per_segment
                    end_idx == IF i - 1 < Len(checkpoints) - 2
                               THEN i * per_segment ELSE total_points
                IN  [start_idx |-> start_idx, end_idx |-> end_idx,
                     length |-> end_idx - start_idx]]

\* _get_segment_info: the segment of a sample and its place in it as the
\* fraction num / den
GetSegmentInfo(point_index, segment_info) ==
    LET hits == {i \in 1..Len(segment_info) :
                    /\ segment_info[i].start_idx <= point_index
                    /\ point_index < segment_info[i].end_idx}
        Local(i) == [segment_index |-> i - 1,
                     num |-> point_index - segment_info[i].start_idx,
                     den |-> Max(1, segment_info[i].length - 1)]
    IN  IF hits # {} THEN Local(CHOOSE i \in hits : \A k \in hits : i <= k)
        ELSE IF Len(segment_info) > 0 THEN Local(Len(segment_info))
        ELSE [segment_index |-> 0, num |-> 0, den |-> 1]

\* _get_checkpoint_based_speed_factor, local_t being num / den
GetCheckpointBasedSpeedFactor(segment_index, num, den, total_segments) ==
    IF segment_index = 0
    THEN IF 10 * num < 3 * den
         THEN 300 + RoundDiv(7000 * num, 3 * den)
         ELSE 1000
    ELSE IF segment_index = total_segments - 1
    THEN IF 10 * num > 7 * den
         THEN 1000 - RoundDiv(700 * (10 * num - 7 * den), 3 * den)
         ELSE 1000
    ELSE IF 10 * num < 4 * den
         THEN 1000 - RoundDiv(5000 * num, 4 * den)
         ELSE IF 10 * num < 6 * den
         THEN 500
         ELSE 500 + RoundDiv(500 * (10 * num - 6 * den), 4 * den)

\* the speed factors get_speed_profile computes, one per sample
SpeedFactors(path_points, checkpoints) ==
    LET segment_info == CalculateSegmentInfo(path_points, checkpoints)
    IN  [i \in 1..Len(path_points) |->
            LET info == GetSegmentInfo(i - 1, segment_info)
            IN  GetCheckpointBasedSpeedFactor(info.segment_index, info.num,
                                              info.den, Len(segment_info))]

\* get_speed_profile(base_speed), variation[i] being the variation drawn for
\* sample i
BezierSpeedProfile(base_speed, path_points, checkpoints, variation) ==
    IF Len(path_points) = 0 THEN <<base_speed * 1000000>>
    ELSE LET speed_factor == SpeedFactors(path_points, checkpoints)
         IN  [i \in 1..Len(path_points) |->
                Max(base_speed * speed_factor[i] * variation[i],
                    base_speed * MinSpeedFactor * 1000)]

-----------------------------------------------------------------------------
(* DroneSimulator: the scene *)

\* A world is what one handler call works on: the registry, the scene, the
\* writes issued so far and whether an exception is propagating.
World(drones, order, valid, pos, rot) ==
    [drones |-> drones, order |-> order, valid |-> valid, pos |-> pos,
     rot |-> rot, writes |-> <<>>, raised |-> FALSE]

\* variant of _move_drone_to_position that lets the failed lookup of the
\* prim raise
MoveDroneToPosition_Raises(w, camera_name, position) ==
    IF w.valid[camera_name]
    THEN [w EXCEPT !.pos[camera_name] = position,
                   !.writes = Append(@, [op |-> "translate",
                                         name |-> camera_name,
                                         value |-> position])]
    ELSE [w EXCEPT !.raised = TRUE]

\* _move_drone_to_position: the translate op is created when missing and
\* set; a prim that is not valid is reported and nothing is written
MoveDroneToPosition(w, camera_name, position) ==
    IF w.valid[camera_name]
    THEN [w EXCEPT !.pos[camera_name] = position,
                   !.writes = Append(@, [op |-> "translate",
                                         name |-> camera_name,
                                         value |-> position])]
    ELSE w

\* _update_camera_rotation
UpdateCameraRotation(w, camera_name, rotation) ==
    IF w.valid[camera_name]
    THEN [w EXCEPT !.rot[camera_name] = rotation,
                   !.writes = Append(@, [op |-> "orient",
                                         name |-> camera_name,
                                         value |-> rotation])]
    ELSE w

-----------------------------------------------------------------------------
(* DroneSimulator: orientation *)

\* 0.1 m: a next sample closer than this gives no stable direction
TangentNearLength == 2
\* 0.5 m: a sample farther than this ends the forward search
TangentFarLength == 10
\* the speed the blend factor is computed from when drone_info has no "speed"
OrientationSpeed == 1

Min(a, b) == IF a < b THEN a ELSE b

RECURSIVE NearestFrom(_, _, _, _)
NearestFrom(current_pos, path_points, i, best) ==
    IF i > Len(path_points) THEN best
    ELSE NearestFrom(current_pos, path_points, i + 1,
            IF best = 0 \/ VLength(VSub(path_points[i], current_pos))
                             < VLength(VSub(path_points[best], current_pos))
            THEN i ELSE best)

\* _find_nearest_path_index, 0-based; 0 for an empty path
FindNearestPathIndex(current_pos, path_points) ==
    IF Len(path_points) = 0 THEN 0
    ELSE NearestFrom(current_pos, path_points, 1, 0) - 1

\* the forward search of _calculate_tangent_at_position over the 0-based
\* indices i .. stop - 1, direction being the last one computed
RECURSIVE FarDirection(_, _, _, _, _)
FarDirection(current_pos, path_points, i, stop, direction) ==
    IF i >= stop THEN direction
    ELSE LET d == VSub(path_points[i + 1], current_pos)
         IN  IF VLength(d) > TangentFarLength THEN d
             ELSE FarDirection(current_pos, path_points, i + 1, stop, d)

\* variant of the tangent that falls back to the default direction at the
\* last sample
CalculateTangentAtPosition_DefaultAtEnd(current_pos, path_points) ==
    LET nearest_idx == FindNearestPathIndex(current_pos, path_points)
    IN  IF nearest_idx < Len(path_points) - 1
        THEN LET direction == VSub(path_points[nearest_idx + 2], current_pos)
             IN  VScaledDirection(
                    IF VLength(direction) < TangentNearLength
                    THEN FarDirection(current_pos, path_points, nearest_idx + 2,
                                      Min(Len(path_points), nearest_idx + 5),
                                      direction)
                    ELSE direction, 1)
        ELSE Vec(0, 0, 1)

\* _calculate_tangent_at_position: the unit tangent
CalculateTangentAtPosition(current_pos, path_points) ==
    LET nearest_idx == FindNearestPathIndex(current_pos, path_points)
    IN  IF nearest_idx < Len(path_points) - 1
        THEN LET direction == VSub(path_points[nearest_idx + 2], current_pos)
             IN  VScaledDirection(
                    IF VLength(direction) < TangentNearLength
                    THEN FarDirection(current_pos, path_points, nearest_idx + 2,
                                      Min(Len(path_points), nearest_idx + 5),
                                      direction)
                    ELSE direction, 1)
        ELSE IF nearest_idx > 0
        THEN VScaledDirection(VSub(current_pos, path_points[nearest_idx]), 1)
        ELSE Vec(0, 0, 1)

\* Gf.Quatd(real, i, j, k)
Quatd(real, i, j, k) == [real |-> real, imaginary |-> <<i, j, k>>]

\* math.sqrt of a value of at most 1, the value in millionths, the root in
\* thousandths, rounded down
ISqrt(s) == CHOOSE n \in 0..1000 : n * n <= s /\ (n + 1) * (n + 1) > s

\* the rotation _tangent_to_quaternion computes for a tangent that is not
\* near the vertical: the unit axis Cross(camera_forward, tangent) with
\* camera_forward = (0, 0, -1), and the sine and cosine of half the angle
\* between the two, all in thousandths
RotationOf(tangent_vector) ==
    LET rotation_axis == Vec(tangent_vector[2], -tangent_vector[1], 0)
        length == ISqrt(rotation_axis[1] * rotation_axis[1]
                            + rotation_axis[2] * rotation_axis[2])
        cos_angle == Max(-1000, Min(1000, -tangent_vector[3]))
    IN  [length |-> length,
         axis |-> IF length = 0 THEN rotation_axis
                  ELSE [k \in 1..3 |-> RoundDiv(rotation_axis[k] * 1000, length)],
         sin_half |-> ISqrt((1000 - cos_angle) * 500),
         cos_half |-> ISqrt((1000 + cos_angle) * 500)]

\* _tangent_to_quaternion, tangent and quaternion in thousandths
TangentToQuaternion(tangent_vector) ==
    IF Abs(tangent_vector[3]) > 990
    THEN IF tangent_vector[3] > 0 THEN Quatd(0, 1000, 0, 0)
         ELSE Quatd(1000, 0, 0, 0)
    ELSE LET r == RotationOf(tangent_vector)
         IN  IF r.length = 0 THEN Quatd(1000, 0, 0, 0)
             ELSE Quatd(RoundDiv(r.sin_half * r.axis[1], 1000),
                        RoundDiv(r.sin_half * r.axis[2], 1000),
                        RoundDiv(r.sin_half * r.axis[3], 1000),
                        r.cos_half)

\* _calculate_dynamic_smoothing_factor, in hundredths, base_factor 0.3
CalculateDynamicSmoothingFactor(speed) ==
    IF 2 * speed <= 1 THEN 30
    ELSE IF 2 * speed <= 3 THEN 30 + ((60 - 30) * (2 * speed - 1)) \div 2
    ELSE 60

\* the speed _update_camera_orientation_based_on_tangent looks up: the key
\* "speed" of the body's drone_info, which start_drone_simulation never sets
OrientationCurrentSpeed(w, camera_name) ==
    IF camera_name \in DOMAIN w.drones
          /\ "speed" \in DOMAIN w.drones[camera_name]
    THEN w.drones[camera_name]["speed"]
    ELSE OrientationSpeed

\* _update_camera_orientation_based_on_tangent.  The rotation written is
\* recorded as the tangent it turns the camera to and the blend factor of
\* the Slerp from the current rotation.
UpdateCameraOrientationBasedOnTangent(w, camera_name, current_pos, path_points) ==
    LET tangent_vector == CalculateTangentAtPosition(current_pos, path_points)
        factor == CalculateDynamicSmoothingFactor(
                      OrientationCurrentSpeed(w, camera_name))
    IN  UpdateCameraRotation(w, camera_name,
                             [tangent |-> tangent_vector, factor |-> factor])

-----------------------------------------------------------------------------
(* DroneSimulator: one body's tick *)

\* the first checkpoint, from 0-based index i on, that current_pos is within
\* the arrival radius of and whose number exceeds checkpoint_reached
RECURSIVE ExtremaFrom(_, _, _, _)
ExtremaFrom(checkpoints, current_pos, already_reached, i) ==
    IF i >= Len(checkpoints) THEN 0
    ELSE IF VLength(VSub(checkpoints[i + 1], current_pos)) < CheckpointRadius
            /\ i + 1 > already_reached
    THEN i + 1
    ELSE ExtremaFrom(checkpoints, current_pos, already_reached, i + 1)

\* variant of _check_extrema_reached that looks at the first checkpoint only
CheckExtremaReached_FirstOnly(drone_info, current_pos) ==
    ExtremaFrom(SubSeq(drone_info.checkpoints, 1, 1), current_pos,
                drone_info.checkpoint_reached, 0)

\* _check_extrema_reached
CheckExtremaReached(drone_info, current_pos) ==
    ExtremaFrom(drone_info.checkpoints, current_pos,
                drone_info.checkpoint_reached, 0)

\* variant of the speed lookup that uses the profile entry whatever its sign
CurrentSpeed_KeepsEntry(drone_info) ==
    LET speed_profile == drone_info.speed_profile
        current_path_index == drone_info.current_path_index
    IN  IF current_path_index < Len(speed_profile)
        THEN speed_profile[current_path_index + 1]
        ELSE IF Len(speed_profile) > 0
        THEN speed_profile[Len(speed_profile)]
        ELSE DefaultSpeed

\* the speed of this tick: the profile entry at the target index, the last
\* entry past the end, the default for an empty profile or a value <= 0
CurrentSpeed(drone_info) ==
    LET speed_profile == drone_info.speed_profile
        current_path_index == drone_info.current_path_index
        looked_up == IF current_path_index < Len(speed_profile)
                     THEN speed_profile[current_path_index + 1]
                     ELSE IF Len(speed_profile) > 0
                     THEN speed_profile[Len(speed_profile)]
                     ELSE DefaultSpeed
    IN  IF looked_up <= 0 THEN DefaultSpeed ELSE looked_up

\* variant of the checkpoint bookkeeping that stores the result of
\* _check_extrema_reached without comparing it with the stored value
AfterCheckpointCheck_Overwrites(drone_info) ==
    [drone_info EXCEPT !.checkpoint_reached =
        CheckExtremaReached(drone_info, drone_info.current_position)]

\* drone_info after the checkpoint bookkeeping of the tick
AfterCheckpointCheck(drone_info) ==
    LET checkpoint_reached ==
            CheckExtremaReached(drone_info, drone_info.current_position)
    IN  IF checkpoint_reached > drone_info.checkpoint_reached
        THEN [drone_info EXCEPT !.checkpoint_reached = checkpoint_reached]
        ELSE drone_info

\* variant of the arrival test in which the end of the path flips the
\* moving flag instead of clearing it
AfterArrivalCheck_Toggles(drone_info, distance_to_target) ==
    IF distance_to_target < ArrivalThreshold
    THEN LET next_path_index == drone_info.current_path_index + 1
         IN  IF next_path_index < Len(drone_info.extrema_path)
             THEN [drone_info EXCEPT
                      !.current_path_index = next_path_index,
                      !.target_position =
                          drone_info.extrema_path[next_path_index + 1]]
             ELSE [drone_info EXCEPT !.is_moving = ~drone_info.is_moving]
    ELSE drone_info

\* variant of the arrival test that ends the run on arrival at the sample
\* before the last one
AfterArrivalCheck_StopsEarly(drone_info, distance_to_target) ==
    IF distance_to_target < ArrivalThreshold
    THEN LET next_path_index == drone_info.current_path_index + 1
         IN  IF next_path_index + 1 < Len(drone_info.extrema_path)
             THEN [drone_info EXCEPT
                      !.current_path_index = next_path_index,
                      !.target_position =
                          drone_info.extrema_path[next_path_index + 1]]
             ELSE [drone_info EXCEPT !.is_moving = FALSE]
    ELSE drone_info

\* variant of the arrival test that advances by two samples where it can
AfterArrivalCheck_Skips(drone_info, distance_to_target) ==
    IF distance_to_target < ArrivalThreshold
    THEN LET next_path_index ==
                 IF drone_info.current_path_index + 2
                        < Len(drone_info.extrema_path)
                 THEN drone_info.current_path_index + 2
                 ELSE drone_info.current_path_index + 1
         IN  IF next_path_index < Len(drone_info.extrema_path)
             THEN [drone_info EXCEPT
                      !.current_path_index = next_path_index,
                      !.target_position =
                          drone_info.extrema_path[next_path_index + 1]]
             ELSE [drone_info EXCEPT !.is_moving = FALSE]
    ELSE drone_info

\* drone_info after the arrival test of the tick, distance_to_target being
\* the distance measured at the start of the tick
AfterArrivalCheck(drone_info, distance_to_target) ==
    IF distance_to_target < ArrivalThreshold
    THEN LET next_path_index == drone_info.current_path_index + 1
         IN  IF next_path_index < Len(drone_info.extrema_path)
             THEN [drone_info EXCEPT
                      !.current_path_index = next_path_index,
                      !.target_position =
                          drone_info.extrema_path[next_path_index + 1]]
             ELSE [drone_info EXCEPT !.is_moving = FALSE]
    ELSE drone_info

\* does the tick return at the end of the path, before the movement
ReturnsAtPathEnd(drone_info, distance_to_target) ==
    /\ distance_to_target < ArrivalThreshold
    /\ drone_info.current_path_index + 1 >= Len(drone_info.extrema_path)

\* variant of the step that is not cut off at the target
NewPosition_Overshoots(current_pos, target_pos, current_speed, delta_time) ==
    VAdd(current_pos,
         VScaledDirection(VSub(target_pos, current_pos),
                          current_speed * delta_time))

\* variant of the step that is cut off only when the target is nearer than
\* half a step
NewPosition_ClampsLate(current_pos, target_pos, current_speed, delta_time) ==
    LET distance_to_target == VLength(VSub(target_pos, current_pos))
    IN  IF 2 * distance_to_target < current_speed * delta_time
        THEN target_pos
        ELSE VAdd(current_pos,
                  VScaledDirection(VSub(target_pos, current_pos),
                                   current_speed * delta_time))

\* the position the tick moves to: a step of speed * delta_time towards the
\* target read at the start of the tick, the target itself when the step
\* would pass it
NewPosition(current_pos, target_pos, current_speed, delta_time) ==
    LET distance_to_target == VLength(VSub(target_pos, current_pos))
    IN  IF distance_to_target < current_speed * delta_time
        THEN target_pos
        ELSE VAdd(current_pos,
                  VScaledDirection(VSub(target_pos, current_pos),
                                   current_speed * delta_time))

\* variant of _update_drone_movement that turns the camera before it moves
\* it, by the tangent at the position the tick began with
UpdateDroneMovement_OrientsFirst(w, camera_name, delta_time) ==
    LET drone_info == w.drones[camera_name]
        current_pos == drone_info.current_position
        target_pos == drone_info.target_position
        current_speed == CurrentSpeed(drone_info)
        distance_to_target == VLength(VSub(target_pos, current_pos))
        checked == AfterCheckpointCheck(drone_info)
        arrived == AfterArrivalCheck(checked, distance_to_target)
        w1 == [w EXCEPT !.drones[camera_name] = arrived]
    IN  IF ReturnsAtPathEnd(checked, distance_to_target) \/ ~arrived.is_moving
        THEN w1
        ELSE LET new_position == NewPosition(current_pos, target_pos,
                                             current_speed, delta_time)
                 w2 == UpdateCameraOrientationBasedOnTangent(
                           w1, camera_name, current_pos,
                           drone_info.extrema_path)
                 w3 == MoveDroneToPosition(w2, camera_name, new_position)
             IN  [w3 EXCEPT !.drones[camera_name].current_position = new_position]

\* _update_drone_movement
UpdateDroneMovement(w, camera_name, delta_time) ==
    LET drone_info == w.drones[camera_name]
        current_pos == drone_info.current_position
        target_pos == drone_info.target_position
        current_speed == CurrentSpeed(drone_info)
        distance_to_target == VLength(VSub(target_pos, current_pos))
        checked == AfterCheckpointCheck(drone_info)
        arrived == AfterArrivalCheck(checked, distance_to_target)
        w1 == [w EXCEPT !.drones[camera_name] = arrived]
    IN  IF ReturnsAtPathEnd(checked, distance_to_target) \/ ~arrived.is_moving
        THEN w1
        ELSE LET new_position == NewPosition(current_pos, target_pos,
                                             current_speed, delta_time)
                 w2 == MoveDroneToPosition(w1, camera_name, new_position)
                 w3 == UpdateCameraOrientationBasedOnTangent(
                           w2, camera_name, new_position,
                           drone_info.extrema_path)
             IN  [w3 EXCEPT !.drones[camera_name].current_position = new_position]

\* the loop of update_drone_simulation over the bodies in registry order; an
\* exception leaves the loop
RECURSIVE UpdateAll(_, _, _)
UpdateAll(w, i, delta_time) ==
    IF i > Len(w.order) \/ w.raised THEN w
    ELSE UpdateAll(UpdateDroneMovement(w, w.order[i], delta_time), i + 1,
                   delta_time)

\* variant of update_drone_simulation that deletes the entries of the runs
\* that have stopped
UpdateDroneSimulation_DiscardsStopped(w, delta_time) ==
    IF Len(w.order) = 0 THEN w
    ELSE LET u == UpdateAll(w, 1, delta_time)
             kept == {n \in DOMAIN u.drones : u.drones[n].is_moving}
         IN  [u EXCEPT !.drones = [n \in kept |-> u.drones[n]],
                       !.order = SelectSeq(u.order, LAMBDA n : n \in kept)]

\* update_drone_simulation
UpdateDroneSimulation(w, delta_time) ==
    IF Len(w.order) = 0 THEN w ELSE UpdateAll(w, 1, delta_time)

-----------------------------------------------------------------------------
(* DroneSimulator: start and stop *)

\* the registry entry start_drone_simulation stores
DroneInfo(camera_name, checkpoints, extrema_path, speed_profile) ==
    [checkpoints |-> checkpoints,
     extrema_path |-> extrema_path,
     speed_profile |-> speed_profile,
     current_path_index |-> 0,
     current_position |-> extrema_path[1],
     target_position |-> IF Len(extrema_path) > 1 THEN extrema_path[2]
                         ELSE extrema_path[1],
     is_moving |-> TRUE,
     camera_path |-> camera_name,
     checkpoint_reached |-> 0,
     is_at_extrema |-> FALSE,
     extrema_pause_time |-> 0]

\* variant of the registration in which every entry refers to the curve and
\* the profile of the generator, as built last
Register_SharesCurve(w, camera_name, drone_info) ==
    [w EXCEPT !.drones = [n \in DOMAIN w.drones \cup {camera_name} |->
                             IF n = camera_name THEN drone_info
                             ELSE [w.drones[n] EXCEPT
                                      !.extrema_path = drone_info.extrema_path,
                                      !.speed_profile =
                                          drone_info.speed_profile]],
              !.order = IF camera_name \in DOMAIN w.drones THEN w.order
                        ELSE Append(w.order, camera_name)]

\* variant of the registration that carries the checkpoint count of an
\* entry it replaces over to the new one
Register_KeepsCount(w, camera_name, drone_info) ==
    [w EXCEPT !.drones = [n \in DOMAIN w.drones \cup {camera_name} |->
                             IF n # camera_name THEN w.drones[n]
                             ELSE IF n \in DOMAIN w.drones
                             THEN [drone_info EXCEPT !.checkpoint_reached =
                                      w.drones[n].checkpoint_reached]
                             ELSE drone_info],
              !.order = IF camera_name \in DOMAIN w.drones THEN w.order
                        ELSE Append(w.order, camera_name)]

\* the registry with the entry of camera_name stored
Register(w, camera_name, drone_info) ==
    [w EXCEPT !.drones = [n \in DOMAIN w.drones \cup {camera_name} |->
                             IF n = camera_name THEN drone_info
                             ELSE w.drones[n]],
              !.order = IF camera_name \in DOMAIN w.drones THEN w.order
                        ELSE Append(w.order, camera_name)]

\* variant of a failed start that empties the registry
StartFailed_ClearsRegistry(w, gen) ==
    [world |-> [w EXCEPT !.drones = <<>>, !.order = <<>>],
     path_points |-> gen.path_points,
     checkpoints |-> gen.checkpoints, reset |-> FALSE, result |-> FALSE]

\* a failed start: no entry is stored
StartFailed(w, gen) ==
    [world |-> w, path_points |-> gen.path_points,
     checkpoints |-> gen.checkpoints, reset |-> FALSE, result |-> FALSE]

\* start_drone_simulation on the world w, gen being the fields of the
\* polynomial generator and pps its points_per_segment
StartDroneSimulation(w, gen, pps, camera_name, checkpoints, speed) ==
    IF Len(checkpoints) = 0 THEN StartFailed(w, gen)
    ELSE IF ~w.valid[camera_name] THEN StartFailed(w, gen)
    ELSE IF w.pos[camera_name] = NoOp THEN StartFailed(w, gen)
    ELSE
        LET start_position == w.pos[camera_name]
            path_points == <<start_position>> \o checkpoints
            built == GeneratePolynomialPath(path_points, pps, gen.path_points,
                                            gen.checkpoints)
            extrema_path == built.value
            speed_profile == PolySpeedProfile(speed, built.path_points)
        IN  IF built.raised \/ Len(extrema_path) = 0
            THEN StartFailed(w, built)
            ELSE [world |-> MoveDroneToPosition(
                                Register(w, camera_name,
                                         DroneInfo(camera_name, checkpoints,
                                                   extrema_path, speed_profile)),
                                camera_name, extrema_path[1]),
                  path_points |-> built.path_points,
                  checkpoints |-> built.checkpoints,
                  reset |-> TRUE, result |-> TRUE]

RECURSIVE Without(_, _)
Without(seq, x) ==
    IF seq = <<>> THEN <<>>
    ELSE IF Head(seq) = x THEN Without(Tail(seq), x)
    ELSE <<Head(seq)>> \o Without(Tail(seq), x)

\* variant of stop_drone_simulation that clears the moving flag and keeps
\* the entry
StopDroneSimulation_KeepsEntry(w, camera_name) ==
    IF camera_name \in DOMAIN w.drones
    THEN [w EXCEPT !.drones[camera_name].is_moving = FALSE]
    ELSE w

\* stop_drone_simulation
StopDroneSimulation(w, camera_name) ==
    IF camera_name \in DOMAIN w.drones
    THEN [w EXCEPT !.drones = [n \in DOMAIN w.drones \ {camera_name} |->
                                  w.drones[n]],
                   !.order = Without(w.order, camera_name)]
    ELSE w

\* get_drone_status, without the status text
GetDroneStatus(drones, camera_name) ==
    IF camera_name \in DOMAIN drones
    THEN LET drone_info == drones[camera_name]
         IN  [current_path_point |-> drone_info.current_path_index + 1,
              total_path_points |-> Len(drone_info.extrema_path),
              current_checkpoint |-> drone_info.checkpoint_reached,
              total_checkpoints |-> Len(drone_info.checkpoints),
              current_position |-> drone_info.current_position,
              is_active |-> TRUE,
              is_moving |-> drone_info.is_moving]
    ELSE [is_active |-> FALSE]

\* is_drone_active
IsDroneActive(drones, camera_name) == camera_name \in DOMAIN drones

-----------------------------------------------------------------------------
(* Inputs *)

Origin == Vec(0, 0, 0)

\* the arguments of start_drone_simulation: a checkpoint list and a base
\* speed; speed 0 is replaced by the default in every tick
RunInputs ==
    {<<<<>>, 4>>,
     <<<<Vec(5, 0, 0)>>, 0>>,
     <<<<Vec(24, 0, 0), Vec(20, 0, 0)>>, 4>>,
     <<<<Vec(20, 0, 0), BadPoint>>, 4>>}

\* physics step sizes
DeltaTimes == {2, 3}

PointsPerSegmentValues == -1..MaxPointsPerSegment

-----------------------------------------------------------------------------
(* The state machine *)

\* the state after DroneSimulator() in a scene with the camera prims, the
\* spline builder constructed with one of pps_values and the host stepping
\* with one of step_sizes
InitWith(pps_values, step_sizes, scenes) ==
    /\ active_drones = <<>>
    /\ drone_order = <<>>
    /\ prim_valid = [n \in Names |-> TRUE]
    /\ scene_pos \in scenes
    /\ scene_rot = [n \in Names |-> NoOp]
    /\ poly_path_points = <<>>
    /\ poly_checkpoints = <<>>
    /\ points_per_segment \in pps_values
    /\ bez_path_points = <<>>
    /\ bez_checkpoints = <<>>
    /\ bez_path_index = 0
    /\ writes = <<>>
    /\ ret = [op |-> "init"]
    /\ starts = 0
    /\ step_size \in step_sizes
    /\ run_ticks = [n \in Names |-> 0]
    /\ idle_ticks = [n \in Names |-> FALSE]
    /\ cameras = <<>>

\* scenes: every camera at the origin, or camera b without a translate op
Scenes == {[n \in Names |-> Origin],
           [n \in Names |-> IF n = "a" THEN Origin ELSE NoOp]}

Init == InitWith(PointsPerSegmentValues, DeltaTimes, Scenes)

TheWorld == World(active_drones, drone_order, prim_valid, scene_pos, scene_rot)

SetWorld(w) ==
    /\ active_drones' = w.drones
    /\ drone_order' = w.order
    /\ scene_pos' = w.pos
    /\ scene_rot' = w.rot
    /\ writes' = w.writes

\* the caller starts a run
Start(camera_name, checkpoints, speed) ==
    /\ starts < MaxStarts
    /\ LET r == StartDroneSimulation(TheWorld,
                    [path_points |-> poly_path_points,
                     checkpoints |-> poly_checkpoints],
                    points_per_segment, camera_name, checkpoints, speed)
       IN  /\ SetWorld(r.world)
           /\ poly_path_points' = r.path_points
           /\ poly_checkpoints' = r.checkpoints
           /\ bez_path_index' = IF r.reset THEN 0 ELSE bez_path_index
           /\ ret' = [op |-> "start", name |-> camera_name, result |-> r.result,
                      previous |-> GetDroneStatus(active_drones, camera_name)]
           /\ run_ticks' = IF r.result
                           THEN [run_ticks EXCEPT ![camera_name] = 0]
                           ELSE run_ticks
           /\ idle_ticks' = IF r.result
                            THEN [idle_ticks EXCEPT ![camera_name] = FALSE]
                            ELSE idle_ticks
    /\ starts' = starts + 1
    /\ UNCHANGED <<cameras, prim_valid, points_per_segment, bez_path_points,
                   bez_checkpoints, step_size>>

\* the caller stops a run
Stop(camera_name) ==
    /\ SetWorld(StopDroneSimulation(TheWorld, camera_name))
    /\ ret' = [op |-> "stop", name |-> camera_name]
    /\ run_ticks' = [run_ticks EXCEPT ![camera_name] = 0]
    /\ idle_ticks' = [idle_ticks EXCEPT ![camera_name] = FALSE]
    /\ UNCHANGED <<cameras, prim_valid, poly_path_points, poly_checkpoints,
                   points_per_segment, bez_path_points, bez_checkpoints,
                   bez_path_index, starts, step_size>>

\* the host's physics step: on_physics_step(step)
Tick(delta_time) ==
    /\ LET w == UpdateDroneSimulation(TheWorld, delta_time)
       IN  /\ SetWorld(w)
           /\ ret' = [op |-> "update", raised |-> w.raised]
    /\ run_ticks' = [n \in Names |->
                        IF n \in DOMAIN active_drones /\ active_drones[n].is_moving
                        THEN run_ticks[n] + 1
                        ELSE run_ticks[n]]
    /\ idle_ticks' = [n \in Names |->
                         IF n \in DOMAIN active_drones
                               /\ ~active_drones[n].is_moving
                         THEN TRUE
                         ELSE idle_ticks[n]]
    /\ UNCHANGED <<cameras, prim_valid, poly_path_points, poly_checkpoints,
                   points_per_segment, bez_path_points, bez_checkpoints,
                   bez_path_index, starts, step_size>>

\* the scene loses a prim, and with it its xform ops
DeletePrim(camera_name) ==
    /\ prim_valid[camera_name]
    /\ prim_valid' = [prim_valid EXCEPT ![camera_name] = FALSE]
    /\ scene_pos' = [scene_pos EXCEPT ![camera_name] = NoOp]
    /\ scene_rot' = [scene_rot EXCEPT ![camera_name] = NoOp]
    /\ writes' = <<>>
    /\ ret' = [op |-> "scene"]
    /\ UNCHANGED <<cameras, active_drones, drone_order, poly_path_points,
                   poly_checkpoints, points_per_segment, bez_path_points,
                   bez_checkpoints, bez_path_index, starts, step_size,
                   run_ticks, idle_ticks>>

StartAny == \E n \in Names, i \in RunInputs : Start(n, i[1], i[2])
StopAny == \E n \in Names : Stop(n)
TickAny == Tick(step_size)
DeleteAny == \E n \in Names : DeletePrim(n)

Next == StartAny \/ StopAny \/ TickAny \/ DeleteAny

Spec == Init /\ [][Next]_vars

\* runs the caller never stops, ticked by the host for ever
InitFair == InitWith(PointsPerSegmentValues, DeltaTimes,
                     {[n \in Names |-> Origin]})

NextFair == StartAny \/ TickAny

\* a tick would change the state, which is ENABLED <<TickAny>>_vars: the
\* tick has no guard, so it is enabled exactly when its result differs
TickChangesState ==
    LET w == UpdateDroneSimulation(TheWorld, step_size)
    IN  \/ w.drones # active_drones
        \/ w.pos # scene_pos
        \/ w.rot # scene_rot
        \/ w.writes # writes
        \/ ret # [op |-> "update", raised |-> w.raised]
        \/ \E n \in DOMAIN active_drones :
               active_drones[n].is_moving \/ ~idle_ticks[n]

\* the host calls on_physics_step in every frame: weak fairness of the tick,
\* WF_vars(TickAny), written out by its definition
TickFairness == []<>(~TickChangesState) \/ []<><<TickAny>>_vars

SpecFair == InitFair /\ [][NextFair]_vars /\ TickFairness

\* straight runs: the spline builder constructed with points_per_segment 1
\* and a single checkpoint on the x axis, so the curve has two samples
StraightSpeeds == {0, 1, 2}
StraightDeltaTimes == {1, 2}

InitStraight == InitWith({1}, StraightDeltaTimes, {[n \in Names |-> Origin]})

StartStraightAny ==
    \E d \in 0..MaxDistance, speed \in StraightSpeeds :
        Start("a", <<Vec(d, 0, 0)>>, speed)

NextStraight == StartStraightAny \/ TickAny

SpecStraight == InitStraight /\ [][NextStraight]_vars

-----------------------------------------------------------------------------
(* The curve builders called on their own *)

\* points the checkpoint lists handed to the spline builder are made of
CurvePoints == {Vec(0, 0, 0), Vec(10, 0, 0), Vec(8, 4, 6)}

\* checkpoint lists handed to the spline builder: every list of up to three
\* of the points, and one with a malformed checkpoint
PolyCheckpointLists ==
    {<<>>, <<Vec(0, 0, 0), BadPoint>>, <<Vec(0, 0, 0), Vec(NaN, 0, 0)>>,
     <<Vec(0, 0, 0), Vec(10, 0, 0), Vec(8, NaN, 6)>>}
        \cup {<<p>> : p \in CurvePoints}
        \cup {<<p, q>> : p \in CurvePoints, q \in CurvePoints}
        \cup {<<p, q, r>> : p \in CurvePoints, q \in CurvePoints,
                             r \in CurvePoints}

\* checkpoint lists handed to the Bezier builder
BezierCheckpointLists ==
    {<<>>,
     <<Vec(4, 0, 0)>>,
     <<Vec(0, 0, 0), Vec(10, 0, 0)>>,
     <<Vec(8, 4, 6), Vec(8, 4, 6)>>,
     <<Vec(0, 0, 0), Vec(10, 0, 0), Vec(8, 4, 6)>>,
     <<Vec(0, 0, 0), BadPoint>>}

\* generate_polynomial_path(checkpoints)
BuildPolynomial(checkpoints) ==
    /\ LET r == GeneratePolynomialPath(checkpoints, points_per_segment,
                                       poly_path_points, poly_checkpoints)
       IN  /\ poly_path_points' = r.path_points
           /\ poly_checkpoints' = r.checkpoints
           /\ ret' = [op |-> "generate_polynomial_path",
                      checkpoints |-> checkpoints, value |-> r.value,
                      raised |-> r.raised, attempts |-> r.attempts]
    /\ UNCHANGED <<cameras, active_drones, drone_order, prim_valid, scene_pos, scene_rot,
                   points_per_segment, bez_path_points, bez_checkpoints,
                   bez_path_index, writes, starts, step_size, run_ticks,
                   idle_ticks>>

\* generate_bezier_path(checkpoints, points_per_seg), deviation and jitter
\* being the random numbers it draws
BuildBezier(checkpoints, points_per_seg, deviation, jitter) ==
    /\ LET r == GenerateBezierPath(checkpoints, points_per_seg, deviation,
                                   jitter, bez_path_points, bez_checkpoints)
       IN  /\ bez_path_points' = r.path_points
           /\ bez_checkpoints' = r.checkpoints
           /\ ret' = [op |-> "generate_bezier_path",
                      checkpoints |-> checkpoints, value |-> r.value,
                      raised |-> r.raised]
    /\ UNCHANGED <<cameras, active_drones, drone_order, prim_valid, scene_pos, scene_rot,
                   poly_path_points, poly_checkpoints, points_per_segment,
                   bez_path_index, writes, starts, step_size, run_ticks,
                   idle_ticks>>

\* the deviation magnitudes _add_deviation is drawn from; only the
\* two-checkpoint branch draws one
Deviations(checkpoints) ==
    IF Len(checkpoints) = 2 THEN (-DeviationFactor)..DeviationFactor ELSE {0}

BuildPolynomialAny == \E c \in PolyCheckpointLists : BuildPolynomial(c)

BuildBezierAny ==
    \E c \in BezierCheckpointLists, pps \in PointsPerSegmentValues :
        \E deviation \in Deviations(c),
           jitter \in [1..BezierSamples(c, pps) -> MicroDeviations] :
            BuildBezier(c, pps, deviation, jitter)

\* the spline builder of a simulator nothing else is done with
InitPolynomial ==
    InitWith(PointsPerSegmentValues, {2}, {[n \in Names |-> Origin]})

\* the base speeds get_speed_profile is called with
BaseSpeeds == {-1, 0, 1, 2}

\* what the most recent generate_polynomial_path returned, if one returned:
\* a build records it in ret, a get_speed_profile call carries it on
LastCurve ==
    CASE ret.op = "PolynomialPathGenerator.get_speed_profile" -> ret.curve
      [] ret.op = "generate_polynomial_path" /\ ~ret.raised ->
             [built |-> TRUE, value |-> ret.value]
      [] OTHER -> [built |-> FALSE, value |-> <<>>]

\* get_speed_profile(base_speed) of the spline generator
GetPolySpeedProfile(base_speed) ==
    /\ ret' = [op |-> "PolynomialPathGenerator.get_speed_profile", base_speed |-> base_speed,
               value |-> PolySpeedProfile(base_speed, poly_path_points),
               curve |-> LastCurve]
    /\ UNCHANGED <<cameras, active_drones, drone_order, prim_valid, scene_pos, scene_rot,
                   poly_path_points, poly_checkpoints, points_per_segment,
                   bez_path_points, bez_checkpoints, bez_path_index, writes,
                   starts, step_size, run_ticks, idle_ticks>>

GetPolySpeedProfileAny == \E b \in BaseSpeeds : GetPolySpeedProfile(b)

NextPolynomial == BuildPolynomialAny \/ GetPolySpeedProfileAny

SpecPolynomial == InitPolynomial /\ [][NextPolynomial]_vars

\* the variations get_speed_profile draws for n samples: the least, the
\* middle or the greatest one for every sample
Variations(n) ==
    {[i \in 1..n |-> v] :
        v \in {1000 - SpeedVariation, 1000, 1000 + SpeedVariation}}

\* get_speed_profile(base_speed) of the Bezier generator
GetBezierSpeedProfile(base_speed, variation) ==
    /\ ret' = [op |-> "BezierPathGenerator.get_speed_profile",
               base_speed |-> base_speed,
               value |-> BezierSpeedProfile(base_speed, bez_path_points,
                                            bez_checkpoints, variation),
               factors |-> SpeedFactors(bez_path_points, bez_checkpoints)]
    /\ UNCHANGED <<cameras, active_drones, drone_order, prim_valid, scene_pos, scene_rot,
                   poly_path_points, poly_checkpoints, points_per_segment,
                   bez_path_points, bez_checkpoints, bez_path_index, writes,
                   starts, step_size, run_ticks, idle_ticks>>

GetBezierSpeedProfileAny ==
    \E b \in BaseSpeeds, variation \in Variations(Len(bez_path_points)) :
        GetBezierSpeedProfile(b, variation)

\* both builders side by side, on the same few checkpoint lists, the Bezier
\* builder drawing no deviation and no jitter
BuildPolynomialFew == \E c \in BezierCheckpointLists : BuildPolynomial(c)

BuildBezierPlain ==
    \E c \in BezierCheckpointLists, pps \in PointsPerSegmentValues :
        BuildBezier(c, pps, 0,
                    [i \in 1..BezierSamples(c, pps) |-> Vec(0, 0, 0)])

NextBuilders ==
    \/ BuildPolynomialFew
    \/ GetPolySpeedProfileAny
    \/ BuildBezierPlain
    \/ GetBezierSpeedProfileAny

SpecBuilders == InitPolynomial /\ [][NextBuilders]_vars


\* the Bezier builder of a simulator nothing else is done with
InitBezier ==
    InitWith({MaxPointsPerSegment}, {2}, {[n \in Names |-> Origin]})

SpecBezier == InitBezier /\ [][BuildBezierAny]_vars

\* a fast run over a long curve that ends next to its first checkpoint: the
\* spline swings past both checkpoints, and a step reaches past a sample
FarCheckpoints == <<Vec(400, 0, 0), Vec(404, 0, 0)>>
FarSpeeds == {50, 75}

InitFar == InitWith({2}, DeltaTimes, {[n \in Names |-> Origin]})

StartFarAny == \E speed \in FarSpeeds : Start("a", FarCheckpoints, speed)

NextFar == StartFarAny \/ TickAny

SpecFar == InitFar /\ [][NextFar]_vars

\* _tangent_to_quaternion on the tangents GetNormalized can hand it: the
\* zero vector and unit vectors, in thousandths
TangentComponents == {0, 280, 360, 480, 600, 800, 960, 1000}

UnitTangents ==
    LET signed == TangentComponents \cup {-c : c \in TangentComponents}
    IN  {Vec(0, 0, 0)} \cup
        {t \in signed \X signed \X signed :
            t[1] * t[1] + t[2] * t[2] + t[3] * t[3] = 1000 * 1000}

ConvertTangent(tangent_vector) ==
    /\ ret' = [op |-> "_tangent_to_quaternion", tangent |-> tangent_vector,
               value |-> TangentToQuaternion(tangent_vector)]
    /\ UNCHANGED <<cameras, active_drones, drone_order, prim_valid, scene_pos, scene_rot,
                   poly_path_points, poly_checkpoints, points_per_segment,
                   bez_path_points, bez_checkpoints, bez_path_index, writes,
                   starts, step_size, run_ticks, idle_ticks>>

ConvertTangentAny == \E t \in UnitTangents : ConvertTangent(t)

InitQuaternion == InitWith({1}, {2}, {[n \in Names |-> Origin]})

SpecQuaternion == InitQuaternion /\ [][ConvertTangentAny]_vars

\* the checkpoint store of CameraController
MaxCheckpoints == 3

CameraNames == {"a"}

CheckpointPositions == {Vec(0, 0, 0), Vec(10, 0, 0)}

\* camera_name in self.cameras and self.cameras[camera_name]["type"] == "drone"
IsDroneCamera(cams, camera_name) ==
    /\ camera_name \in DOMAIN cams
    /\ cams[camera_name].type = "drone"

\* self.cameras[camera_name] = info
WithCamera(cams, camera_name, info) ==
    [n \in DOMAIN cams \cup {camera_name} |->
        IF n = camera_name THEN info ELSE cams[n]]

\* is_checkpoint_enabled; a camera without "checkpoint_states" is the same as
\* one with an empty dict
IsCheckpointEnabled(cams, camera_name, index) ==
    IF IsDroneCamera(cams, camera_name)
    THEN IF index \in DOMAIN cams[camera_name].checkpoint_states
         THEN cams[camera_name].checkpoint_states[index]
         ELSE TRUE
    ELSE TRUE

RECURSIVE EnabledFrom(_, _, _)
\* the loop of get_enabled_checkpoints from index i on (indices from 0)
EnabledFrom(cams, camera_name, i) ==
    LET checkpoints == cams[camera_name].checkpoints
    IN  IF i >= Len(checkpoints) THEN <<>>
        ELSE (IF IsCheckpointEnabled(cams, camera_name, i)
              THEN <<checkpoints[i + 1]>> ELSE <<>>)
             \o EnabledFrom(cams, camera_name, i + 1)

\* get_enabled_checkpoints
GetEnabledCheckpoints(cams, camera_name) ==
    IF IsDroneCamera(cams, camera_name)
    THEN EnabledFrom(cams, camera_name, 0)
    ELSE <<>>

CameraUnchanged ==
    UNCHANGED <<active_drones, drone_order, prim_valid, scene_pos, scene_rot,
                poly_path_points, poly_checkpoints, points_per_segment,
                bez_path_points, bez_checkpoints, bez_path_index, writes,
                starts, step_size, run_ticks, idle_ticks>>

\* create_drone_camera on a stage that lets it succeed
CreateDroneCamera(camera_name) ==
    /\ cameras' = WithCamera(cameras, camera_name,
                     [type |-> "drone", checkpoints |-> <<>>,
                      checkpoint_states |-> <<>>])
    /\ ret' = [op |-> "create_drone_camera", camera_name |-> camera_name]
    /\ CameraUnchanged

\* create_basic_camera on a stage that lets it succeed
CreateBasicCamera(camera_name) ==
    /\ cameras' = WithCamera(cameras, camera_name, [type |-> "basic"])
    /\ ret' = [op |-> "create_basic_camera", camera_name |-> camera_name]
    /\ CameraUnchanged

AddCheckpoint(camera_name, position) ==
    /\ IsDroneCamera(cameras, camera_name)
          => Len(cameras[camera_name].checkpoints) < MaxCheckpoints
    /\ cameras' =
          IF IsDroneCamera(cameras, camera_name)
          THEN [cameras EXCEPT
                  ![camera_name].checkpoints = Append(@, position)]
          ELSE cameras
    /\ ret' = [op |-> "add_checkpoint", camera_name |-> camera_name]
    /\ CameraUnchanged

ClearCheckpoints(camera_name) ==
    /\ cameras' =
          IF IsDroneCamera(cameras, camera_name)
          THEN [cameras EXCEPT ![camera_name].checkpoints = <<>>]
          ELSE cameras
    /\ ret' = [op |-> "clear_checkpoints", camera_name |-> camera_name]
    /\ CameraUnchanged

\* checkpoints.pop(index), the index counted from 0
RemoveCheckpoint(camera_name, index) ==
    /\ cameras' =
          IF /\ IsDroneCamera(cameras, camera_name)
             /\ 0 <= index
             /\ index < Len(cameras[camera_name].checkpoints)
          THEN [cameras EXCEPT
                  ![camera_name].checkpoints =
                      [k \in 1..(Len(@) - 1) |->
                          IF k <= index THEN @[k] ELSE @[k + 1]]]
          ELSE cameras
    /\ ret' = [op |-> "remove_checkpoint", camera_name |-> camera_name,
               index |-> index]
    /\ CameraUnchanged

EnableCheckpoint(camera_name, index, enabled) ==
    /\ cameras' =
          IF /\ IsDroneCamera(cameras, camera_name)
             /\ 0 <= index
             /\ index < Len(cameras[camera_name].checkpoints)
          THEN [cameras EXCEPT
                  ![camera_name].checkpoint_states =
                      [i \in DOMAIN @ \cup {index} |->
                          IF i = index THEN enabled ELSE @[i]]]
          ELSE cameras
    /\ ret' = [op |-> "enable_checkpoint", camera_name |-> camera_name,
               index |-> index, enabled |-> enabled]
    /\ CameraUnchanged

CheckpointIndices == -1..MaxCheckpoints

NextCameras ==
    \/ \E n \in CameraNames : CreateDroneCamera(n)
    \/ \E n \in CameraNames : CreateBasicCamera(n)
    \/ \E n \in CameraNames, p \in CheckpointPositions : AddCheckpoint(n, p)
    \/ \E n \in CameraNames : ClearCheckpoints(n)
    \/ \E n \in CameraNames, i \in CheckpointIndices : RemoveCheckpoint(n, i)
    \/ \E n \in CameraNames, i \in CheckpointIndices, e \in BOOLEAN :
            EnableCheckpoint(n, i, e)

InitCameras == InitWith({1}, {2}, {[n \in Names |-> Origin]})

SpecCameras == InitCameras /\ [][NextCameras]_vars

\* the speed lookup of the tick and the step made with it, on the profiles
\* and indices a registry entry can be given
SpeedProfiles ==
    UNION {[1..k -> BaseSpeeds] : k \in 0..MaxProfileLength}

LookupSpeed(speed_profile, current_path_index, delta_time) ==
    /\ LET current_speed ==
               CurrentSpeed([speed_profile |-> speed_profile,
                             current_path_index |-> current_path_index])
       IN  ret' = [op |-> "current_speed", speed_profile |-> speed_profile,
                   current_path_index |-> current_path_index,
                   value |-> current_speed,
                   new_position |-> NewPosition(Origin, Vec(MaxDistance, 0, 0),
                                                current_speed, delta_time)]
    /\ UNCHANGED <<cameras, active_drones, drone_order, prim_valid, scene_pos, scene_rot,
                   poly_path_points, poly_checkpoints, points_per_segment,
                   bez_path_points, bez_checkpoints, bez_path_index, writes,
                   starts, step_size, run_ticks, idle_ticks>>

LookupSpeedAny ==
    \E speed_profile \in SpeedProfiles,
       current_path_index \in 0..MaxProfileLength :
        LookupSpeed(speed_profile, current_path_index, step_size)

InitSpeed == InitWith({1}, DeltaTimes, {[n \in Names |-> Origin]})

SpecSpeed == InitSpeed /\ [][LookupSpeedAny]_vars

\* the last call was a curve build that returned a curve with samples
BuiltCurve ==
    /\ ret.op \in {"generate_polynomial_path", "generate_bezier_path"}
    /\ ~ret.raised
    /\ Len(ret.checkpoints) >= 2
    /\ Len(ret.value) >= 1

-----------------------------------------------------------------------------
(* Claims *)

\* C1: every curve a builder returns for two or more checkpoints starts at
\* the first checkpoint and ends at the last checkpoint, whatever jitter was
\* drawn.  The Bezier builder adds a micro deviation to every sample, the
\* first and the last included, and never overwrites them.
C1_EndpointsExact ==
    BuiltCurve =>
        /\ ret.value[1] = ret.checkpoints[1]
        /\ ret.value[Len(ret.value)] = ret.checkpoints[Len(ret.checkpoints)]

-----------------------------------------------------------------------------
(* Properties of the tick, of start and of stop.  ret names the call a step
   made: a step that leaves ret.op "update" is a tick, "start" a start, "stop"
   a stop. *)

\* C2: stopped is terminal - a tick leaves the tracked position, the target
\* index, the target position and the moving flag of a run whose moving flag
\* is false as they are, and writes neither a position nor a rotation for
\* that body.
C2_StoppedIsTerminal ==
    [][ret'.op = "update" =>
        \A n \in DOMAIN active_drones :
            ~active_drones[n].is_moving =>
                /\ n \in DOMAIN active_drones'
                /\ active_drones'[n].current_position
                       = active_drones[n].current_position
                /\ active_drones'[n].current_path_index
                       = active_drones[n].current_path_index
                /\ active_drones'[n].target_position
                       = active_drones[n].target_position
                /\ active_drones'[n].is_moving = FALSE
                /\ \A i \in 1..Len(writes') : writes'[i].name # n
                /\ scene_pos'[n] = scene_pos[n]
                /\ scene_rot'[n] = scene_rot[n]]_vars

\* a stopped run has been ticked again, in a tick that moved another body
C2_Witness ==
    /\ ret.op = "update"
    /\ writes # <<>>
    /\ \E n \in DOMAIN active_drones :
           ~active_drones[n].is_moving /\ idle_ticks[n]

\* C3: over the ticks of a run checkpoint_reached never decreases and never
\* exceeds the number of checkpoints the run was started with.
C3_CheckpointsPassedMonotone ==
    [][ret'.op = "update" =>
        \A n \in DOMAIN active_drones :
            /\ active_drones'[n].checkpoint_reached
                   >= active_drones[n].checkpoint_reached
            /\ active_drones'[n].checkpoint_reached
                   <= Len(active_drones'[n].checkpoints)]_vars

\* a tick has brought a run of two checkpoints to checkpoint_reached 2
C3_Witness ==
    /\ ret.op = "update"
    /\ \E n \in DOMAIN active_drones :
           /\ Len(active_drones[n].checkpoints) = 2
           /\ active_drones[n].checkpoint_reached = 2
           /\ run_ticks[n] > 0

\* C4: a run that was started, is ticked with a fixed step size and is never
\* stopped by the caller eventually has its moving flag false and
\* checkpoint_reached equal to the number of its checkpoints.
C4_RunCompletes ==
    \A n \in Names :
        (n \in DOMAIN active_drones)
            ~> (/\ n \in DOMAIN active_drones
                /\ ~active_drones[n].is_moving
                /\ active_drones[n].checkpoint_reached
                       = Len(active_drones[n].checkpoints))

\* a run of two checkpoints has stopped with both of them counted
C4_Witness ==
    \E n \in DOMAIN active_drones :
        /\ ~active_drones[n].is_moving
        /\ Len(active_drones[n].checkpoints) = 2
        /\ active_drones[n].checkpoint_reached = 2
        /\ run_ticks[n] > 2

\* the distance of a straight run, from its first sample to its last
StraightDistance(drone_info) ==
    VLength(VSub(drone_info.extrema_path[Len(drone_info.extrema_path)],
                 drone_info.extrema_path[1]))

\* the length of one step of a run: profile speed times the step size
StraightStep(drone_info) == CurrentSpeed(drone_info) * step_size

\* ceil(a / b)
CeilDiv(a, b) == (a + b - 1) \div b

StopTick(distance, step) ==
    2 + CHOOSE j \in 0..distance :
            /\ distance - Min(j * step, distance) < ArrivalThreshold
            /\ \A k \in 0..(j - 1) :
                   distance - Min(k * step, distance) >= ArrivalThreshold

C6_FailedStartLeavesRegistry ==
    [][(ret'.op = "start" /\ ret'.result = FALSE) =>
           /\ active_drones' = active_drones
           /\ drone_order' = drone_order]_vars

\* a start has failed during curve construction while a run of that name,
\* already ticked, was in the registry
C6_Witness ==
    /\ ret.op = "start"
    /\ ret.result = FALSE
    /\ ret.name \in DOMAIN active_drones
    /\ run_ticks[ret.name] > 0
    /\ poly_checkpoints # <<>>
    /\ poly_checkpoints[Len(poly_checkpoints)] = BadPoint

\* C7: stop_drone_simulation removes the run from the registry and writes
\* nothing to the scene - afterwards the body is reported inactive, its
\* scene position and rotation are as before, a stop of a name without a
\* run changes nothing, and a tick writes nothing for a body without a run.
C7_StopDiscards ==
    [][/\ ret'.op = "stop" =>
            /\ ~IsDroneActive(active_drones', ret'.name)
            /\ GetDroneStatus(active_drones', ret'.name) = [is_active |-> FALSE]
            /\ writes' = <<>>
            /\ scene_pos' = scene_pos
            /\ scene_rot' = scene_rot
            /\ ~IsDroneActive(active_drones, ret'.name) =>
                   /\ active_drones' = active_drones
                   /\ drone_order' = drone_order
       /\ ret'.op = "update" =>
            \A n \in Names \ DOMAIN active_drones :
                /\ scene_pos'[n] = scene_pos[n]
                /\ scene_rot'[n] = scene_rot[n]
                /\ \A i \in 1..Len(writes') : writes'[i].name # n]_vars

\* a run that had moved its body has been stopped
C7_Witness ==
    /\ ret.op = "stop"
    /\ ~IsDroneActive(active_drones, ret.name)
    /\ scene_pos[ret.name] # Origin
    /\ scene_pos[ret.name] # NoOp
    /\ scene_rot[ret.name] # NoOp

\* C8, as stated: a run whose moving flag has become false is no longer in
\* the registry of active runs.
C8_CompletedRunDiscarded ==
    \A n \in Names :
        IsDroneActive(active_drones, n) =>
            GetDroneStatus(active_drones, n).is_moving

\* C8, amended: a tick removes no run from the registry; a run whose moving
\* flag has become false stays in it, is_drone_active is true for it and its
\* status snapshot reports it active and not moving, until the caller stops
\* it or starts the body again.
C8_CompletedRunStays ==
    [][ret'.op = "update" =>
        /\ DOMAIN active_drones' = DOMAIN active_drones
        /\ drone_order' = drone_order
        /\ \A n \in DOMAIN active_drones' :
               ~active_drones'[n].is_moving =>
                   /\ IsDroneActive(active_drones', n)
                   /\ GetDroneStatus(active_drones', n).is_active
                   /\ ~GetDroneStatus(active_drones', n).is_moving]_vars

\* the tick in which a run completed has just been taken
C8_Witness ==
    /\ ret.op = "update"
    /\ \E n \in Names :
           /\ IsDroneActive(active_drones, n)
           /\ ~GetDroneStatus(active_drones, n).is_moving
           /\ ~idle_ticks[n]
           /\ run_ticks[n] > 0

\* C9: bodies are independent - in a tick every body's entry becomes what
\* the tick of that body alone makes of it, and a start or a stop of one
\* body leaves the entry of every other body (state, curve and speed
\* profile) unchanged.
C9_BodiesIndependent ==
    [][/\ ret'.op = "update" =>
            \A n \in DOMAIN active_drones :
                active_drones'[n]
                    = UpdateDroneMovement(
                          World([m \in {n} |-> active_drones[n]], <<n>>,
                                prim_valid, scene_pos, scene_rot),
                          n, step_size).drones[n]
       /\ ret'.op \in {"start", "stop"} =>
            \A m \in DOMAIN active_drones \ {ret'.name} :
                /\ m \in DOMAIN active_drones'
                /\ active_drones'[m] = active_drones[m]]_vars

\* two runs are active and a tick has moved both bodies
C9_Witness ==
    /\ ret.op = "update"
    /\ Cardinality(DOMAIN active_drones) = 2
    /\ \A n \in DOMAIN active_drones :
           /\ active_drones[n].is_moving
           /\ \E i \in 1..Len(writes) :
                  writes[i].op = "translate" /\ writes[i].name = n

\* C10: in a tick in which the prim of an active body no longer exists no
\* exception leaves update_drone_simulation, and every other body that
\* moves in the tick gets its position written and its orientation written.
C10_LookupFailureContained ==
    [][(ret'.op = "update" /\ \E m \in DOMAIN active_drones : ~prim_valid[m]) =>
        /\ ret'.raised = FALSE
        /\ \A n \in DOMAIN active_drones :
               (prim_valid[n] /\ active_drones[n].is_moving
                    /\ active_drones'[n].is_moving) =>
                   /\ scene_pos'[n] = active_drones'[n].current_position
                   /\ \E i \in 1..Len(writes') :
                          writes'[i] = [op |-> "translate", name |-> n,
                                        value |-> scene_pos'[n]]
                   /\ \E i \in 1..Len(writes') :
                          writes'[i] = [op |-> "orient", name |-> n,
                                        value |-> scene_rot'[n]]]_vars

\* a tick has updated a body after the lookup of the body ticked before it
\* had failed
C10_Witness ==
    /\ ret.op = "update"
    /\ ret.raised = FALSE
    /\ Len(drone_order) = 2
    /\ ~prim_valid[drone_order[1]]
    /\ active_drones[drone_order[1]].is_moving
    /\ run_ticks[drone_order[1]] > 0
    /\ prim_valid[drone_order[2]]
    /\ \E i \in 1..Len(writes) :
           writes[i].op = "orient" /\ writes[i].name = drone_order[2]

-----------------------------------------------------------------------------
(* Properties of the curve builders and of their speed profiles. *)

\* C11: a build on a generator whose samples-per-segment is below 1 fails
\* with an error: it never returns a curve, empty or otherwise.  The
\* spline builder validates nothing: with 0 samples per segment it samples
\* nothing and returns the empty curve.
C11_BelowOneFails ==
    (ret.op = "generate_polynomial_path" /\ points_per_segment < 1) =>
        ret.raised

\* C12: get_speed_profile returns as many speeds as the curve returned by
\* the most recent build has samples, or the one base speed when that curve
\* is empty.  A build with fewer than two checkpoints returns its input and
\* leaves path_points of the build before it in place.
C12_ProfileMatchesCurve ==
    (ret.op = "PolynomialPathGenerator.get_speed_profile" /\ ret.curve.built) =>
        IF ret.curve.value = <<>>
            THEN ret.value = <<ret.base_speed>>
            ELSE Len(ret.value) = Len(ret.curve.value)

C14_ShortListReturned ==
    [][(ret'.op \in {"generate_polynomial_path", "generate_bezier_path"}
            /\ Len(ret'.checkpoints) < 2) =>
        /\ ret'.raised = FALSE
        /\ ret'.value = ret'.checkpoints
        /\ UNCHANGED <<poly_path_points, poly_checkpoints,
                       bez_path_points, bez_checkpoints>>]_vars

\* each builder was given a single checkpoint after it had built a curve
C14_Witness ==
    /\ ret.op \in {"generate_polynomial_path", "generate_bezier_path"}
    /\ Len(ret.checkpoints) = 1
    /\ ret.value = ret.checkpoints
    /\ Len(poly_path_points) >= 2
    /\ Len(bez_path_points) >= 2

\* the curve the spline builder samples from one fit, the same for x, y
\* and z, its two ends overwritten by the first and the last checkpoint
CurveOfTier(tier, checkpoints, pps) ==
    LET num_points == Len(checkpoints) * pps
    IN  [i \in 1..num_points |->
            IF i = 1 THEN checkpoints[1]
            ELSE IF i = num_points THEN checkpoints[Len(checkpoints)]
            ELSE [k \in 1..3 |->
                    SplineValue(tier, Axis(checkpoints, k), i - 1,
                                num_points - 1)]]

\* C15: the spline builder attempts its fits in the order periodic, natural,
\* linear: the natural one only after the periodic one failed, the linear
\* one only after both failed, and it samples all three axes of the curve
\* from the first fit that did not fail.
C15_FitsInOrder ==
    (ret.op = "generate_polynomial_path" /\ ~ret.raised
            /\ Len(ret.checkpoints) >= 2) =>
        /\ ret.attempts \in {<<"periodic">>, <<"periodic", "natural">>,
                              <<"periodic", "natural", "linear">>}
        /\ Len(ret.attempts) >= 2 => PeriodicRaises(ret.checkpoints)
        /\ Len(ret.attempts) >= 3 => NaturalRaises(ret.checkpoints)
        /\ ret.attempts[Len(ret.attempts)] = "periodic" =>
               ~PeriodicRaises(ret.checkpoints)
        /\ ret.attempts[Len(ret.attempts)] = "natural" =>
               ~NaturalRaises(ret.checkpoints)
        /\ ret.value = CurveOfTier(ret.attempts[Len(ret.attempts)],
                                   ret.checkpoints, points_per_segment)

\* a curve was sampled from the linear fit after both spline fits had failed
C15_Witness ==
    /\ ret.op = "generate_polynomial_path"
    /\ ~ret.raised
    /\ ret.attempts = <<"periodic", "natural", "linear">>
    /\ Len(ret.value) >= 3

\* C16: a curve built from two or more checkpoints with one or more samples
\* per segment passes through every checkpoint: each checkpoint, the
\* interior ones included, equals some sample, in checkpoint order.  The
\* Bezier builder offsets every sample by its micro deviation, and the
\* samples of either builder are spaced without regard to the checkpoints.
C16_PassesThroughCheckpoints ==
    BuiltCurve =>
        \E at \in [1..Len(ret.checkpoints) -> 1..Len(ret.value)] :
            /\ \A k \in 1..Len(ret.checkpoints) :
                   ret.value[at[k]] = ret.checkpoints[k]
            /\ \A k \in 1..(Len(ret.checkpoints) - 1) : at[k] <= at[k + 1]

-----------------------------------------------------------------------------
(* Properties of the movement of one tick. *)

\* p lies on the straight segment from a to b
OnSegment(p, a, b) ==
    /\ \A k \in 1..3 : Min(a[k], b[k]) <= p[k] /\ p[k] <= Max(a[k], b[k])
    /\ \A k \in 1..3, l \in 1..3 :
           (p[k] - a[k]) * (b[l] - a[l]) = (p[l] - a[l]) * (b[k] - a[k])

\* C17: a tick that moves a body puts it on the straight segment from where
\* it was to the target the tick began with, puts it on that target when
\* speed * delta_time exceeds the distance that was left, and never leaves
\* it farther from that target than it was.
C17_NoOvershoot ==
    [][ret'.op = "update" =>
        \A n \in DOMAIN active_drones :
            (active_drones[n].is_moving /\ active_drones'[n].is_moving) =>
                LET current_pos == active_drones[n].current_position
                    target_pos == active_drones[n].target_position
                    new_position == active_drones'[n].current_position
                    distance_to_target == VLength(VSub(target_pos, current_pos))
                IN  /\ OnSegment(new_position, current_pos, target_pos)
                    /\ distance_to_target
                            < CurrentSpeed(active_drones[n]) * step_size =>
                           new_position = target_pos
                    /\ VLength(VSub(target_pos, new_position))
                           <= distance_to_target]_vars

\* a tick has put a moving body on the target it was heading to, away from
\* the first sample of its curve
C17_Witness ==
    /\ ret.op = "update"
    /\ \E n \in DOMAIN active_drones :
           /\ active_drones[n].is_moving
           /\ run_ticks[n] > 0
           /\ active_drones[n].current_position
                  = active_drones[n].target_position
           /\ active_drones[n].current_position
                  # active_drones[n].extrema_path[1]

\* C18: the moving flag of a body turns false only in a tick, and only in a
\* tick that begins with the body heading to the last sample of its curve,
\* its index on that sample, and its position nearer to it than the arrival
\* threshold: a run never ends while a later sample is left.
C18_StopsOnlyAtLastSample ==
    [][\A n \in DOMAIN active_drones :
        (n \in DOMAIN active_drones' /\ active_drones[n].is_moving
                /\ ~active_drones'[n].is_moving) =>
            LET drone_info == active_drones[n]
                last == Len(drone_info.extrema_path)
            IN  /\ ret'.op = "update"
                /\ drone_info.current_path_index = last - 1
                /\ drone_info.target_position = drone_info.extrema_path[last]
                /\ VLength(VSub(drone_info.target_position,
                                drone_info.current_position))
                       < ArrivalThreshold]_vars

\* a run over a curve of three or more samples has ended
C18_Witness ==
    /\ ret.op = "update"
    /\ \E n \in DOMAIN active_drones :
           /\ ~active_drones[n].is_moving
           /\ run_ticks[n] > 0
           /\ Len(active_drones[n].extrema_path) >= 3
           /\ active_drones[n].current_path_index
                  = Len(active_drones[n].extrema_path) - 1

\* C19: the target index of a registered body is an index of its curve at
\* all times, and a tick leaves it as it is or raises it by one, however far
\* speed * delta_time reaches; no step but a start of the body lowers it.
C19_IndexAdvancesByOne ==
    [][\A n \in DOMAIN active_drones' :
        /\ 0 <= active_drones'[n].current_path_index
        /\ active_drones'[n].current_path_index
               <= Len(active_drones'[n].extrema_path) - 1
        /\ (n \in DOMAIN active_drones /\ ret'.op = "update") =>
               active_drones'[n].current_path_index \in
                   {active_drones[n].current_path_index,
                    active_drones[n].current_path_index + 1}
        /\ (n \in DOMAIN active_drones /\ ret'.op # "start") =>
               active_drones'[n].current_path_index
                   >= active_drones[n].current_path_index]_vars

\* a run has advanced past the sample after the first one, with steps that
\* reach beyond the arrival threshold
C19_Witness ==
    /\ ret.op = "update"
    /\ \E n \in DOMAIN active_drones :
           /\ active_drones[n].is_moving
           /\ active_drones[n].current_path_index >= 2
           /\ CurrentSpeed(active_drones[n]) * step_size > ArrivalThreshold

\* C20: in every tick that moves a body, the first one after start included,
\* the target the body has stored is the sample of its curve at the index
\* it has stored, and the step it makes is the one for the profile speed at
\* that index (the last profile speed past the end of the profile).  A run
\* starts with index 0 and with the sample after the first one as target.
C20_SpeedOfTargetSample ==
    [][ret'.op = "update" =>
        \A n \in DOMAIN active_drones :
            (active_drones[n].is_moving /\ active_drones'[n].is_moving) =>
                LET drone_info == active_drones[n]
                    index == drone_info.current_path_index
                    profile == drone_info.speed_profile
                    speed == IF index < Len(profile) THEN profile[index + 1]
                             ELSE profile[Len(profile)]
                IN  /\ drone_info.target_position
                           = drone_info.extrema_path[index + 1]
                    /\ speed > 0 =>
                           active_drones'[n].current_position
                               = NewPosition(drone_info.current_position,
                                             drone_info.target_position,
                                             speed, step_size)]_vars

-----------------------------------------------------------------------------
(* Properties of the checkpoint bookkeeping. *)

\* the checkpoints of a run that lie within the arrival radius of a position
CheckpointsNear(drone_info, current_pos) ==
    {i \in 1..Len(drone_info.checkpoints) :
        VLength(VSub(drone_info.checkpoints[i], current_pos)) < CheckpointRadius}

\* C22: the checkpoints-passed value counts the checkpoints one by one, each
\* when the position is within the arrival radius of it at the start of a
\* tick; so a tick raises it by no more than the number of checkpoints that
\* are within the radius when it starts, also when a checkpoint was skipped.
\* The code stores the number of the checkpoint it found near, not a count.
C22_CountsCheckpointsNear ==
    [][ret'.op = "update" =>
        \A n \in DOMAIN active_drones :
            active_drones'[n].checkpoint_reached
                    - active_drones[n].checkpoint_reached
                <= Cardinality(CheckpointsNear(active_drones[n],
                                   active_drones[n].current_position))]_vars

\* C23: whenever the moving flag of a run is false, its checkpoints-passed
\* value equals the number of its checkpoints: the value is complete in the
\* tick that ends the run, also when several checkpoints lie within the
\* arrival radius of the place the run ends at.  The checkpoint test stores
\* one checkpoint number per tick, the lowest one above the stored value.
C23_CompleteWhenStopped ==
    \A n \in DOMAIN active_drones :
        ~active_drones[n].is_moving =>
            active_drones[n].checkpoint_reached
                = Len(active_drones[n].checkpoints)

-----------------------------------------------------------------------------
(* Properties of the orientation update. *)

\* C24: the blend factor of the rotation a tick writes for a body is the
\* one for the speed the tick moves that body with: 0.3 up to 1.0 m/s, 0.6
\* above 3.0 m/s, in between in proportion.  The orientation update reads
\* the speed from a key the registry entry never has and falls back to 2.0.
C24_FactorFromTickSpeed ==
    [][ret'.op = "update" =>
        \A i \in 1..Len(writes') :
            writes'[i].op = "orient" =>
                writes'[i].value.factor
                    = CalculateDynamicSmoothingFactor(
                          CurrentSpeed(active_drones[writes'[i].name]))]_vars

\* C25: on a curve along a straight line, a rotation written for a position
\* whose nearest sample is the last one of two or more distinct samples has
\* the unit direction of the last segment as tangent, whatever the speed the
\* body came with.
C25_TangentAtLastSample ==
    [][ret'.op = "update" =>
        \A i \in 1..Len(writes') :
            writes'[i].op = "orient" =>
                LET drone_info == active_drones'[writes'[i].name]
                    path_points == drone_info.extrema_path
                    last == Len(path_points)
                IN  (/\ last >= 2
                     /\ path_points[last] # path_points[last - 1]
                     /\ FindNearestPathIndex(drone_info.current_position,
                                             path_points) = last - 1) =>
                        writes'[i].value.tangent
                            = VScaledDirection(VSub(path_points[last],
                                                    path_points[last - 1]), 1)]_vars

\* a rotation was written for a body that is nearest to the last of three
\* or more samples and has not come to it yet
C25_Witness ==
    /\ ret.op = "update"
    /\ \E i \in 1..Len(writes) :
           /\ writes[i].op = "orient"
           /\ LET drone_info == active_drones[writes[i].name]
                  path_points == drone_info.extrema_path
              IN  /\ Len(path_points) >= 3
                  /\ FindNearestPathIndex(drone_info.current_position,
                                          path_points) = Len(path_points) - 1
                  /\ drone_info.current_position
                         # path_points[Len(path_points)]
                  /\ writes[i].value.tangent # Vec(0, 0, 0)

-----------------------------------------------------------------------------
(* Properties of the writes of a tick. *)

\* the places in the writes of a call at which it wrote op for a body
WritesOf(all, op, n) ==
    {i \in 1..Len(all) : all[i].op = op /\ all[i].name = n}

\* a tick has moved body n: it was moving before the tick and after it
Moved(n) ==
    /\ n \in DOMAIN active_drones
    /\ active_drones[n].is_moving
    /\ active_drones'[n].is_moving

\* C26 as stated: a tick that moves a body issues exactly one position write
\* for it, before its rotation write.  For a body whose prim is gone from
\* the stage the tick advances the tracked position and writes nothing.
C26_OnePositionWrite ==
    [][ret'.op = "update" =>
        \A n \in DOMAIN active_drones :
            Moved(n) =>
                /\ Cardinality(WritesOf(writes', "translate", n)) = 1
                /\ \A i \in WritesOf(writes', "translate", n),
                      j \in WritesOf(writes', "orient", n) : i < j]_vars

\* C26: a tick that moves a body advances its tracked position whether or
\* not anything can be written; for a body with a valid prim it issues one
\* position write, of the new position, and after it one rotation write,
\* computed from the new position; for a body without a valid prim, and for
\* a body it does not move, it issues neither write.
C26_WritesOfATick ==
    [][ret'.op = "update" =>
        \A n \in DOMAIN active_drones :
            LET translates == WritesOf(writes', "translate", n)
                orients == WritesOf(writes', "orient", n)
                drone_info == active_drones[n]
                new_position == active_drones'[n].current_position
            IN  /\ Moved(n) =>
                       new_position
                           = NewPosition(drone_info.current_position,
                                         drone_info.target_position,
                                         CurrentSpeed(drone_info), step_size)
                /\ (Moved(n) /\ prim_valid[n]) =>
                       /\ Cardinality(translates) = 1
                       /\ Cardinality(orients) = 1
                       /\ \A i \in translates, j \in orients :
                              /\ i < j
                              /\ writes'[i].value = new_position
                              /\ writes'[j].value.tangent
                                     = CalculateTangentAtPosition(
                                           new_position, drone_info.extrema_path)
                /\ (~Moved(n) \/ ~prim_valid[n]) =>
                       /\ translates = {}
                       /\ orients = {}
                /\ ~Moved(n) =>
                       new_position = drone_info.current_position]_vars

\* a tick has moved one body and written its position and its rotation, and
\* has moved another body whose prim is not valid
C26_Witness ==
    /\ ret.op = "update"
    /\ Len(drone_order) = 2
    /\ \E n \in DOMAIN active_drones, m \in DOMAIN active_drones :
           /\ prim_valid[n]
           /\ ~prim_valid[m]
           /\ active_drones[n].is_moving
           /\ active_drones[m].is_moving
           /\ run_ticks[m] > 0
           /\ active_drones[m].current_position
                  # active_drones[m].extrema_path[1]
           /\ WritesOf(writes, "translate", n) # {}
           /\ WritesOf(writes, "orient", n) # {}
           /\ WritesOf(writes, "translate", m) = {}

-----------------------------------------------------------------------------
(* Properties of the checkpoint-shaped speed profile. *)

\* C27: in the profile of a curve built from two or more checkpoints, two
\* included, the speed factor over the last index range is 1.0 up to 70% of
\* the range and falls from there in a straight line to 0.3 at the last
\* sample.  With two checkpoints the single range is treated as the first
\* range only: it ramps up and ends at 1.0.
C27_LastRangeDecelerates ==
    (ret.op = "BezierPathGenerator.get_speed_profile"
            /\ bez_path_points # <<>>) =>
        LET segment_info == CalculateSegmentInfo(bez_path_points,
                                                 bez_checkpoints)
            last == segment_info[Len(segment_info)]
        IN  /\ ret.factors[Len(ret.factors)] = 300
            /\ \A i \in (last.start_idx + 1)..last.end_idx :
                   LET num == i - 1 - last.start_idx
                       den == Max(1, last.length - 1)
                   IN  ret.factors[i]
                           = IF 10 * num > 7 * den
                             THEN 1000 - RoundDiv(700 * (10 * num - 7 * den),
                                                  3 * den)
                             ELSE 1000

-----------------------------------------------------------------------------
(* Properties of the quaternion of a tangent. *)

\* C28: _tangent_to_quaternion hands Gf.Quatd its components in one order
\* on every path: the fixed quaternions for a tangent near the vertical, the
\* identity for a rotation axis of length zero (the zero tangent included),
\* and otherwise the real part cos(angle / 2) and the imaginary part
\* sin(angle / 2) * axis.  The general path passes the imaginary part first
\* and the cosine last.
C28_OneConvention ==
    ret.op = "_tangent_to_quaternion" =>
        LET r == RotationOf(ret.tangent)
        IN  IF Abs(ret.tangent[3]) > 990
            THEN ret.value \in {Quatd(0, 1000, 0, 0), Quatd(1000, 0, 0, 0)}
            ELSE IF r.length = 0
            THEN ret.value = Quatd(1000, 0, 0, 0)
            ELSE /\ ret.value.real = r.cos_half
                 /\ ret.value.imaginary
                        = [k \in 1..3 |->
                              RoundDiv(r.sin_half * r.axis[k], 1000)]

-----------------------------------------------------------------------------
(* Properties of the checkpoint store. *)

\* the indices (from 0) of the checkpoints get_enabled_checkpoints returns
EnabledIndices(cams, camera_name) ==
    {i \in 0..(Len(cams[camera_name].checkpoints) - 1) :
        IsCheckpointEnabled(cams, camera_name, i)}

RECURSIVE IsSubsequence(_, _)
IsSubsequence(s, t) ==
    IF s = <<>> THEN TRUE
    ELSE IF t = <<>> THEN FALSE
    ELSE IF Head(s) = Head(t) THEN IsSubsequence(Tail(s), Tail(t))
    ELSE IsSubsequence(s, Tail(t))

\* C29: an enabled/disabled flag stays with the checkpoint it was set on.
\* Removing the checkpoint at an index leaves every other checkpoint as
\* enabled as it was, a checkpoint added later (after a removal or a clear
\* too) is enabled, enable_checkpoint changes the flag of its checkpoint
\* only, and get_enabled_checkpoints is always a subsequence of the stored
\* checkpoints.
C29_FlagsFollowCheckpoints ==
    [][\A n \in CameraNames :
          (IsDroneCamera(cameras, n) /\ IsDroneCamera(cameras', n)
              /\ ret'.op \notin {"create_drone_camera", "create_basic_camera"})
          =>
          LET before == EnabledIndices(cameras, n)
              after == EnabledIndices(cameras', n)
              count == Len(cameras[n].checkpoints)
          IN  /\ (ret'.op = "remove_checkpoint" /\ ret'.index \in 0..(count - 1))
                    => after = {j \in before : j < ret'.index}
                                 \cup {j - 1 : j \in {k \in before : k > ret'.index}}
              /\ ret'.op = "add_checkpoint" => after = before \cup {count}
              /\ (ret'.op = "enable_checkpoint" /\ ret'.index \in 0..(count - 1))
                    => after = (before \ {ret'.index})
                                 \cup (IF ret'.enabled THEN {ret'.index} ELSE {})
              /\ IsSubsequence(GetEnabledCheckpoints(cameras', n),
                               cameras'[n].checkpoints)
      ]_vars

-----------------------------------------------------------------------------
(* Properties of a restart. *)

\* C30: a successful start_drone_simulation for a name that has a run puts
\* a whole new run in its place: target index 0, no checkpoint passed,
\* moving, at the first sample of the curve just built, with that curve and
\* a profile of its own, every other field as a first start sets it; and
\* the name is registered once.
C30_RestartReplacesRun ==
    (ret.op = "start" /\ ret.result /\ ret.previous.is_active) =>
        /\ ret.name \in DOMAIN active_drones
        /\ LET drone_info == active_drones[ret.name]
           IN  /\ drone_info.current_path_index = 0
               /\ drone_info.checkpoint_reached = 0
               /\ drone_info.is_moving
               /\ drone_info.extrema_path = poly_path_points
               /\ drone_info.current_position = poly_path_points[1]
               /\ \E i \in RunInputs :
                      drone_info = DroneInfo(ret.name, i[1], poly_path_points,
                                       PolySpeedProfile(i[2], poly_path_points))
        /\ Cardinality({k \in DOMAIN drone_order :
                            drone_order[k] = ret.name}) = 1

\* a run that had passed a checkpoint and stopped was started again
C30_Witness ==
    /\ ret.op = "start" /\ ret.result /\ ret.previous.is_active
    /\ ret.previous.current_checkpoint > 0
    /\ ~ret.previous.is_moving

=============================================================================
